---------------------------- MODULE Spec2Model ----------------------------
(***************************************************************************)
(* A model of the HTTP relay server/server.js in its three revisions:      *)
(*                                                                         *)
(*   "server_js"  src/server/server.js   preflight short-circuit + cors()  *)
(*   "part_000"   src/unnamed/part_000   manual CORS middleware            *)
(*   "part_001"   src/unnamed/part_001   global cors(), no normalisation   *)
(*                                                                         *)
(* One request at a time travels through the Express layers in the order   *)
(* the revision registers them (health route, origin gate, rate limiter,   *)
(* route handlers); a passthrough handler suspends once, at its await of   *)
(* the outbound call.  Strings are sequences of one-character strings, so  *)
(* that trimming, lower-casing, slicing and matching are computed.         *)
(***************************************************************************)
EXTENDS Integers, Sequences, FiniteSets, TLC

VARIABLES
    rev,                \* which revision of server/server.js is running
    ALLOWED_ORIGIN,     \* process.env.ALLOWED_ORIGIN, split at ","
    ALLOWED,            \* the allow-list built at start-up from ALLOWED_ORIGIN
    ALLOW_NULL_ORIGIN,  \* NODE_ENV !== 'production' (server_js only)
    hits,               \* express-rate-limit's store: client address -> count
    pc,                 \* the layer the current request is at
    req,                \* the current request
    res,                \* the response being built for it
    visited,            \* the layers that have handled the current request
    upstream,           \* the outbound call of the current request
    calls               \* outbound calls issued for the current request

vars == <<rev, ALLOWED_ORIGIN, ALLOWED, ALLOW_NULL_ORIGIN, hits, pc, req, res, visited,
          upstream, calls>>

(***************************************************************************)
(* Bounds of the model.                                                    *)
(***************************************************************************)
MaxOriginLen == 3       \* longest Origin header value
MaxContentLen == 62     \* longest run of non-blank characters in a completion
MaxPad == 1             \* blanks before and after that run
MaxLabelledLen == 3     \* longest completion text built from labels and blanks
HitsCap == 32           \* requests one client sends the limiter per window

(***************************************************************************)
(* Program constants.                                                      *)
(***************************************************************************)
max == 30               \* rateLimit({ windowMs: 60_000, max: 30 })
ReplyCap == 60          \* if (reply.length > 60) reply = reply.slice(0, 60)

Revisions == {"server_js", "part_000", "part_001"}

(***************************************************************************)
(* Strings.                                                                *)
(***************************************************************************)
StringsUpTo(A, n) == UNION {[1..k -> A] : k \in 0..n}

Repeat(c, n) == [i \in 1..n |-> c]

\* White space and line terminators, as String.prototype.trim and \s see them.
WhiteSpace == {" ", "\n"}

\* The characters the regular expression's "." does not match.
LineTerminators == {"\n"}

toLowerCaseChar(c) ==
    CASE c = "A" -> "a"
      [] c = "B" -> "b"
      [] OTHER -> c

\* String.prototype.toLowerCase
toLowerCase(s) == [i \in 1..Len(s) |-> toLowerCaseChar(s[i])]

\* s.replace(/\/+$/, ''): every trailing slash goes.
RECURSIVE stripTrailingSlashes(_)
stripTrailingSlashes(s) ==
    IF s # <<>> /\ s[Len(s)] = "/"
    THEN stripTrailingSlashes(SubSeq(s, 1, Len(s) - 1))
    ELSE s

RECURSIVE trimStart(_)
trimStart(s) ==
    IF s # <<>> /\ s[1] \in WhiteSpace THEN trimStart(Tail(s)) ELSE s

RECURSIVE trimEnd(_)
trimEnd(s) ==
    IF s # <<>> /\ s[Len(s)] \in WhiteSpace
    THEN trimEnd(SubSeq(s, 1, Len(s) - 1))
    ELSE s

\* String.prototype.trim
trim(s) == trimEnd(trimStart(s))

\* s.slice(0, n) for 0 <= n
slice0(s, n) == SubSeq(s, 1, IF Len(s) < n THEN Len(s) ELSE n)

\* Array.prototype.includes
includes(list, x) == \E i \in 1..Len(list) : list[i] = x

\* Array.prototype.filter(Boolean) on a list of strings: '' is dropped.
RECURSIVE filterBoolean(_)
filterBoolean(list) ==
    IF list = <<>> THEN <<>>
    ELSE IF Head(list) = <<>> THEN filterBoolean(Tail(list))
    ELSE <<Head(list)>> \o filterBoolean(Tail(list))

(***************************************************************************)
(* JavaScript values of request and upstream bodies.                       *)
(***************************************************************************)
Undefined == [t |-> "undefined", v |-> <<>>]
Null == [t |-> "null", v |-> <<>>]
Number == [t |-> "number", v |-> <<"7">>]      \* a truthy number
Str(s) == [t |-> "string", v |-> s]

\* ToBoolean of such a value
truthy(x) == x.t = "number" \/ (x.t = "string" /\ x.v # <<>>)

\* ToString of such a value, as RegExp.prototype.exec applies it
toString(x) == IF x.t \in {"string", "number"} THEN x.v ELSE <<>>

(***************************************************************************)
(* The allow-list: the entries of ALLOWED_ORIGIN, already split at ",".    *)
(***************************************************************************)
DefaultAllowedOrigin == <<"a">>                \* 'http://localhost:5500'

\* The normalising map of server_js and part_000.
normalizeEntry(s) == toLowerCase(stripTrailingSlashes(trim(s)))

\* part_001 only trims.
trimEntry(s) == trim(s)

\* An unset or empty ALLOWED_ORIGIN is modelled by the empty list of entries.
buildAllowed(r, entries) ==
    LET list == IF entries = <<>> THEN <<DefaultAllowedOrigin>> ELSE entries
    IN  filterBoolean([i \in 1..Len(list) |->
            IF r = "part_001" THEN trimEntry(list[i])
            ELSE normalizeEntry(list[i])])

\* The origin gate's normal form of an Origin header value.
normalizeOrigin(raw) == toLowerCase(stripTrailingSlashes(raw))

(***************************************************************************)
(* Requests and responses.                                                 *)
(***************************************************************************)
ApiPaths == {"/api/health", "/api/summarize", "/api/generate-avatar", "/api/chat"}
Paths == ApiPaths \cup {"/"}
Methods == {"GET", "POST", "OPTIONS"}
Clients == {"c1", "c2"}

\* app.use('/api', ...) and app.use('/api/', ...) both match these paths.
underApi(path) == path \in ApiPaths

OriginChars == {"a", "A", "b", "/"}

\* An Origin header: absent, or present with a value.
NoOrigin == [present |-> FALSE, value |-> <<>>]
Origin(s) == [present |-> TRUE, value |-> s]
Origins == {NoOrigin} \cup {Origin(s) : s \in StringsUpTo(OriginChars, MaxOriginLen)}

\* req.headers.origin || ''
rawOrigin(r) == IF r.origin.present THEN r.origin.value ELSE <<>>

NoBody == [kind |-> "none"]        \* nothing written yet
EmptyBody == [kind |-> "empty"]    \* res.end() with no data

\* helmet({ crossOriginResourcePolicy: { policy: 'cross-origin' } }) sets this and
\* other security headers, none of them an Access-Control-* header.
HelmetHeaders == [h \in {"Cross-Origin-Resource-Policy"} |-> "cross-origin"]

FreshResponse ==
    [status |-> 200, headers |-> HelmetHeaders, body |-> NoBody, sent |-> 0]

\* res.set(name, value) / res.setHeader(name, value)
setHeader(r, name, value) ==
    [r EXCEPT !.headers =
        [h \in DOMAIN @ \cup {name} |-> IF h = name THEN value ELSE @[h]]]

\* res.status(code).end()
statusEnd(r, code) ==
    [r EXCEPT !.status = code, !.body = EmptyBody, !.sent = @ + 1]

\* res.status(code).json(body); res.json(body) keeps the status 200.
statusJson(r, code, body) ==
    [r EXCEPT !.status = code, !.body = body, !.sent = @ + 1]

\* Express's final handler for next(err): err.status is unset, so 500 and an
\* HTML page; the headers set so far stay.
expressError(r) ==
    [r EXCEPT !.status = 500, !.body = [kind |-> "html"], !.sent = @ + 1]

\* Express's final handler when no layer answers: 404 and an HTML page.
expressNotFound(r) ==
    [r EXCEPT !.status = 404, !.body = [kind |-> "html"], !.sent = @ + 1]

hasHeader(r, name) == name \in DOMAIN r.headers

(***************************************************************************)
(* The layers in the order each revision registers them.                   *)
(***************************************************************************)
Layers(r) ==
    CASE r = "server_js" -> <<"health", "preflight", "cors", "rateLimit", "routes">>
      [] r = "part_000"  -> <<"health", "cors", "rateLimit", "routes">>
      [] r = "part_001"  -> <<"cors", "rateLimit", "health", "routes">>

\* next(): the layer after `layer`.
nextLayer(r, layer) ==
    LET i == CHOOSE k \in 1..Len(Layers(r)) : Layers(r)[k] = layer
    IN  Layers(r)[i + 1]

(***************************************************************************)
(* The origin gate.                                                        *)
(***************************************************************************)
AllowMethods == "GET,POST,PUT,PATCH,DELETE,OPTIONS"
AllowHeaders == "Content-Type, Authorization"
CorsDefaultMethods == "GET,HEAD,PUT,PATCH,POST,DELETE"

\* part_000: const isAllowed = !!raw && ALLOWED.includes(norm)
isAllowed(allowed, raw) == raw # <<>> /\ includes(allowed, normalizeOrigin(raw))

\* part_000: the manual CORS middleware. [res, next]: the response, and whether
\* next() is called.
manualCors_preflightContinues(allowed, r, rs) ==
    LET raw == rawOrigin(r)
    IN  IF isAllowed(allowed, raw)
        THEN [res |-> IF r.method = "OPTIONS"
                      THEN statusEnd(
                               setHeader(setHeader(setHeader(setHeader(rs,
                                   "Access-Control-Allow-Origin", raw),
                                   "Vary", "Origin"),
                                   "Access-Control-Allow-Methods", AllowMethods),
                                   "Access-Control-Allow-Headers", AllowHeaders), 204)
                      ELSE setHeader(setHeader(rs,
                               "Access-Control-Allow-Origin", raw), "Vary", "Origin"),
              next |-> IF r.method = "OPTIONS" THEN "end" ELSE "next"]
        ELSE [res |-> rs, next |-> "next"]

manualCors(allowed, r, rs) ==
    LET raw == rawOrigin(r)
        ok == isAllowed(allowed, raw)
    IN  IF r.method = "OPTIONS"
        THEN IF ok
             THEN [res |-> statusEnd(
                       setHeader(setHeader(setHeader(setHeader(rs,
                           "Access-Control-Allow-Origin", raw),
                           "Vary", "Origin"),
                           "Access-Control-Allow-Methods", AllowMethods),
                           "Access-Control-Allow-Headers", AllowHeaders), 204),
                   next |-> "end"]
             ELSE [res |-> statusEnd(rs, 403), next |-> "end"]
        ELSE IF ok
             THEN [res |-> setHeader(setHeader(rs,
                       "Access-Control-Allow-Origin", raw), "Vary", "Origin"),
                   next |-> "next"]
             ELSE [res |-> rs, next |-> "next"]

\* server_js: the preflight short-circuit. raw is req.headers.origin || '', so
\* it is never undefined and the ALLOW_NULL_ORIGIN disjunct is never true.
preflightShortCircuit(allowed, allowNull, r, rs) ==
    IF r.method # "OPTIONS" THEN [res |-> rs, next |-> "next"]
    ELSE LET raw == rawOrigin(r)
             origin == normalizeOrigin(raw)
             rawIsUndefined == FALSE
         IN  IF origin = <<>> THEN [res |-> statusEnd(rs, 400), next |-> "end"]
             ELSE IF includes(allowed, origin) \/ (allowNull /\ rawIsUndefined)
             THEN [res |-> statusEnd(
                       setHeader(setHeader(setHeader(
                           (IF raw # <<>>
                            THEN setHeader(rs, "Access-Control-Allow-Origin", raw)
                            ELSE rs),
                           "Vary", "Origin"),
                           "Access-Control-Allow-Methods", AllowMethods),
                           "Access-Control-Allow-Headers", AllowHeaders), 204),
                   next |-> "end"]
             ELSE [res |-> statusEnd(rs, 403), next |-> "end"]

\* The origin callback handed to cors(): TRUE for cb(null, true), FALSE for
\* cb(new Error(...)). The header is a string or undefined, never null.
originCallback(r, allowed, allowNull, origin) ==
    LET originIsNull == FALSE
    IN  IF originIsNull /\ allowNull THEN TRUE
        ELSE IF ~origin.present \/ origin.value = <<>> THEN FALSE
        ELSE IF r = "part_001" THEN includes(allowed, origin.value)
        ELSE includes(allowed, normalizeOrigin(origin.value))

\* The cors package's middleware under the revision's options: an error of the
\* origin callback goes to next(err); otherwise the request origin is reflected,
\* a preflight is answered 204 and any other request goes on.
corsPackage(credentials, r, allowed, allowNull, rq, rs) ==
    IF ~originCallback(r, allowed, allowNull /\ r = "server_js", rq.origin)
    THEN [res |-> expressError(rs), next |-> "end"]
    ELSE LET reflected == setHeader(setHeader(rs,
                 "Access-Control-Allow-Origin", rq.origin.value), "Vary", "Origin")
             withOrigin ==
                 IF credentials
                 THEN setHeader(reflected, "Access-Control-Allow-Credentials", "true")
                 ELSE reflected
         IN  IF rq.method = "OPTIONS"
             THEN LET withMethods == setHeader(withOrigin,
                          "Access-Control-Allow-Methods",
                          IF r = "server_js" THEN AllowMethods ELSE CorsDefaultMethods)
                      withHeaders ==
                          IF r = "server_js"
                          THEN setHeader(withMethods,
                                   "Access-Control-Allow-Headers", AllowHeaders)
                          ELSE IF rq.acrh
                          THEN setHeader(withMethods,
                                   "Access-Control-Allow-Headers", "reflected")
                          ELSE withMethods
                  IN  [res |-> statusEnd(withHeaders, 204), next |-> "end"]
             ELSE [res |-> withOrigin, next |-> "next"]

\* What the revision's layer `layer` of the origin gate does with a request.
corsMiddleware_credentials(r, allowed, allowNull, rq, rs) ==
    corsPackage(TRUE, r, allowed, allowNull, rq, rs)

\* cors({ origin: ..., credentials: false, ... }) in server_js and part_001.
corsMiddleware(r, allowed, allowNull, rq, rs) ==
    corsPackage(FALSE, r, allowed, allowNull, rq, rs)

\* server_js and part_000 mount the gate at '/api'; part_001 mounts cors() globally.
gate(r, layer, allowed, allowNull, rq, rs) ==
    IF r # "part_001" /\ ~underApi(rq.path) THEN [res |-> rs, next |-> "next"]
    ELSE IF layer = "preflight"
         THEN preflightShortCircuit(allowed, allowNull, rq, rs)
    ELSE IF r = "part_000" THEN manualCors(allowed, rq, rs)
    ELSE corsMiddleware(r, allowed, allowNull, rq, rs)

(***************************************************************************)
(* The upstream API's answer to the one outbound call.                     *)
(***************************************************************************)
Statuses == {200, 204, 400, 429, 500}

\* r.ok
ok(status) == 200 <= status /\ status <= 299

\* A body text is modelled by what JSON.parse makes of it: not JSON at all, the
\* JSON null, or an object with choices[0].message.content = content and
\* data[0].b64_json = b64 (Undefined where the path is missing).
NotJson == [valid |-> FALSE, shape |-> "text", content |-> Undefined, b64 |-> Undefined]
JsonNull == [valid |-> TRUE, shape |-> "null", content |-> Undefined, b64 |-> Undefined]
JsonObject(c, b) == [valid |-> TRUE, shape |-> "object", content |-> c, b64 |-> b]

\* fetch() or r.text() rejected: no complete answer arrived.
Threw == [threw |-> TRUE, status |-> 0, bodyText |-> NotJson]
Answer(s, b) == [threw |-> FALSE, status |-> s, bodyText |-> b]

NoCall == [state |-> "none", outcome |-> Threw]
Pending == [state |-> "pending", outcome |-> Threw]
Settled(o) == [state |-> "settled", outcome |-> o]

\* Completion texts: a run of non-blank characters between blanks, and every
\* short text over labels, blanks, line breaks and one other character. "T", "S"
\* and "H" stand for the label texts "Topics:", "Sentiment:" and "Style hint:"
\* in any letter case (the expressions carry the i flag).
LabelChars == {"T", "S", "H", " ", "\n", "x"}
PaddedRuns ==
    {Repeat(" ", l) \o Repeat("x", n) \o Repeat(" ", t) :
        l \in 0..MaxPad, t \in 0..MaxPad, n \in 0..MaxContentLen}
Labelled == StringsUpTo(LabelChars, MaxLabelledLen)
Contents == PaddedRuns \cup Labelled

(***************************************************************************)
(* POST /api/summarize                                                     *)
(***************************************************************************)
DefaultTopics == <<"c", "a", "s", "u", "a", "l">>
DefaultSentiment == <<"n", "e", "u", "t", "r", "a", "l">>
DefaultHint == <<"n", "e", "u", "t", "r", "a", "l", " ", "c", "a", "s", "u", "a", "l">>
Fallback429Raw == <<"f", "a", "l", "l", "b", "a", "c", "k", ":", "4", "2", "9">>

\* The least index of `label` in s, or 0.
indexOf(s, label) ==
    IF \E i \in 1..Len(s) : s[i] = label
    THEN CHOOSE i \in 1..Len(s) : s[i] = label /\ \A k \in 1..(i - 1) : s[k] # label
    ELSE 0

\* \s* from position j: the first position at or after j that is not white space.
RECURSIVE skipWhiteSpace(_, _)
skipWhiteSpace(s, j) ==
    IF j <= Len(s) /\ s[j] \in WhiteSpace THEN skipWhiteSpace(s, j + 1) ELSE j

\* (.*) from position j: the text up to the next line terminator.
RECURSIVE restOfLine(_, _)
restOfLine(s, j) ==
    IF j <= Len(s) /\ s[j] \notin LineTerminators
    THEN <<s[j]>> \o restOfLine(s, j + 1)
    ELSE <<>>

\* /<label>\s*(.*)/i.exec(s): [matched, group]. The leftmost label matches; \s*
\* is greedy and (.*) accepts any rest, so no backtracking happens.
exec(label, s) ==
    LET i == indexOf(s, label)
    IN  IF i = 0 THEN [matched |-> FALSE, group |-> <<>>]
        ELSE [matched |-> TRUE, group |-> restOfLine(s, skipWhiteSpace(s, i + 1))]

field_emptyKept(label, content, dflt) ==
    LET m == exec(label, toString(content))
    IN  IF m.matched THEN trim(m.group) ELSE dflt

\* /<label>\s*(.*)/i.exec(content)?.[1]?.trim() || dflt
field(label, content, dflt) ==
    LET m == exec(label, toString(content))
        text == trim(m.group)
    IN  IF m.matched /\ text # <<>> THEN text ELSE dflt

serverError == [kind |-> "error", error |-> "server_error", detail |-> NotJson]
openaiError_detailDropped(bodyText) ==
    [kind |-> "error", error |-> "openai_error", detail |-> NotJson]

\* { error: 'openai_error', detail: bodyText }
openaiError(bodyText) == [kind |-> "error", error |-> "openai_error", detail |-> bodyText]
badRequest == [kind |-> "error", error |-> "bad_request", detail |-> NotJson]
noImage == [kind |-> "error", error |-> "no_image", detail |-> NotJson]

summary(topics, sentiment, hint, raw) ==
    [kind |-> "summary", topics |-> topics, sentiment |-> sentiment,
     hint |-> hint, raw |-> raw]

summarizeAfterFetch_propagates429(rs, o) ==
    IF o.threw THEN statusJson(rs, 500, serverError)
    ELSE IF ~ok(o.status) THEN statusJson(rs, o.status, openaiError(o.bodyText))
    ELSE IF ~o.bodyText.valid \/ o.bodyText.shape = "null"
    THEN statusJson(rs, 500, serverError)
    ELSE LET content == IF truthy(o.bodyText.content) THEN o.bodyText.content
                        ELSE Str(<<>>)
         IN  statusJson(rs, 200,
                 summary(field("T", content, DefaultTopics),
                         field("S", content, DefaultSentiment),
                         field("H", content, DefaultHint),
                         content))

\* The handler from `const bodyText = await r.text()` on, catch clause included.
summarizeAfterFetch(rs, o) ==
    IF o.threw THEN statusJson(rs, 500, serverError)
    ELSE IF o.status = 429
    THEN statusJson(rs, 200,
             summary(DefaultTopics, DefaultSentiment, DefaultHint, Str(Fallback429Raw)))
    ELSE IF ~ok(o.status) THEN statusJson(rs, o.status, openaiError(o.bodyText))
    ELSE IF ~o.bodyText.valid \/ o.bodyText.shape = "null"
    THEN statusJson(rs, 500, serverError)        \* JSON.parse or data.choices throws
    ELSE LET content == IF truthy(o.bodyText.content) THEN o.bodyText.content
                        ELSE Str(<<>>)
         IN  statusJson(rs, 200,
                 summary(field("T", content, DefaultTopics),
                         field("S", content, DefaultSentiment),
                         field("H", content, DefaultHint),
                         content))

(***************************************************************************)
(* POST /api/chat                                                          *)
(***************************************************************************)
DefaultReplyLen == 9
FillerReplyLen == 19
DefaultReply == Repeat("u", DefaultReplyLen)
FillerReply == Repeat("c", FillerReplyLen)

chatReply(reply) == [kind |-> "chat", reply |-> reply]

capReply_offByOne(reply) ==
    IF Len(reply) > ReplyCap THEN slice0(reply, ReplyCap + 1) ELSE reply

\* if (reply.length > 60) reply = reply.slice(0, 60)
capReply(reply) == IF Len(reply) > ReplyCap THEN slice0(reply, ReplyCap) ELSE reply

\* data.choices?.[0]?.message?.content?.trim() || default, for a string or a
\* missing content
trimmedOrDefault(content) ==
    IF content.t = "string" /\ trim(content.v) # <<>> THEN trim(content.v)
    ELSE DefaultReply

chatAfterFetch(rs, o) ==
    IF o.threw THEN statusJson(rs, 500, serverError)
    ELSE IF o.status = 429 THEN statusJson(rs, 200, chatReply(FillerReply))
    ELSE IF ~ok(o.status) THEN statusJson(rs, o.status, openaiError(o.bodyText))
    ELSE IF ~o.bodyText.valid \/ o.bodyText.shape = "null"
    THEN statusJson(rs, 500, serverError)        \* JSON.parse or data.choices throws
    ELSE IF o.bodyText.content.t = "number"
    THEN statusJson(rs, 500, serverError)        \* content.trim is not a function
    ELSE statusJson(rs, 200, chatReply(capReply(trimmedOrDefault(o.bodyText.content))))

(***************************************************************************)
(* POST /api/generate-avatar                                               *)
(***************************************************************************)
hintRejected_falsyOnly(hint) == ~truthy(hint)

\* if (!hint || typeof hint !== 'string')
hintRejected(hint) == ~truthy(hint) \/ hint.t # "string"

avatarAfterFetch_parseThrows(rs, o) ==
    IF o.threw THEN statusJson(rs, 500, serverError)
    ELSE IF ~ok(o.status) THEN statusJson(rs, o.status, openaiError(o.bodyText))
    ELSE IF ~o.bodyText.valid THEN statusJson(rs, 500, serverError)
    ELSE IF ~truthy(o.bodyText.b64) THEN statusJson(rs, 502, noImage)
    ELSE statusJson(rs, 200, [kind |-> "avatar", dataUrl |-> o.bodyText.b64])

\* The handler from `const bodyText = await r.text()` on: a body JSON.parse
\* throws on is taken as {} by the inner catch, so it has no image.
avatarAfterFetch(rs, o) ==
    IF o.threw THEN statusJson(rs, 500, serverError)
    ELSE IF ~ok(o.status) THEN statusJson(rs, o.status, openaiError(o.bodyText))
    ELSE LET b64 == IF o.bodyText.valid THEN o.bodyText.b64 ELSE Undefined
         IN  IF ~truthy(b64) THEN statusJson(rs, 502, noImage)
             ELSE statusJson(rs, 200, [kind |-> "avatar", dataUrl |-> b64])

(***************************************************************************)
(* The inputs: requests, upstream answers and start-up configurations.     *)
(***************************************************************************)
Request(m, p, o, acrh, ip, hint, messages) ==
    [method |-> m, path |-> p, origin |-> o, acrh |-> acrh, ip |-> ip,
     body |-> [hint |-> hint, messages |-> messages], rateLimit |-> 0]

\* acrh: whether the request carries Access-Control-Request-Headers.
\* body.messages: "undefined", "valid" (an array of {role, text}), or "malformed"
\* (a value on which .slice(-10).map(m => m.role ...) throws).
\* rateLimit: req.rateLimit.current, the count the limiter gave the request (0
\* while the limiter has not seen it).
NoRequest == Request("GET", "/", NoOrigin, FALSE, "c1", Undefined, "undefined")

Hints == {Undefined, Null, Number, Str(<<>>), Str(<<"x">>)}
MessageShapes == {"undefined", "valid", "malformed"}

\* Every method on every path, without an Origin and from an origin "a".
BaseRequests ==
    {Request(m, p, o, FALSE, "c1", Str(<<"x">>), "valid") :
        m \in Methods, p \in Paths, o \in {NoOrigin, Origin(<<"a">>)}}

\* The same from every client.
ClientRequests ==
    {Request(m, p, Origin(<<"a">>), FALSE, ip, Str(<<"x">>), "valid") :
        m \in Methods, p \in Paths, ip \in Clients}

\* Every Origin on a preflight and on a POST of /api/chat.
GateRequests ==
    BaseRequests
    \cup {Request("OPTIONS", "/api/chat", o, a, "c1", Undefined, "undefined") :
            o \in Origins, a \in BOOLEAN}
    \cup {Request("POST", "/api/chat", o, FALSE, "c1", Undefined, "valid") :
            o \in Origins}

\* Every body on the three passthrough routes.
HandlerRequests ==
    BaseRequests
    \cup {Request("POST", p, Origin(<<"a">>), FALSE, "c1", Str(<<"x">>), ms) :
            p \in {"/api/summarize", "/api/chat"}, ms \in MessageShapes}
    \cup {Request("POST", "/api/generate-avatar", Origin(<<"a">>), FALSE, "c1",
                  h, "valid") : h \in Hints}

SampleObject == JsonObject(Str(<<"x">>), Str(<<"x">>))

BaseOutcomes ==
    {Threw, Answer(200, SampleObject), Answer(429, NotJson), Answer(500, NotJson)}

\* Every status with every shape of body.
ShapeOutcomes ==
    {Threw}
    \cup {Answer(s, b) : s \in Statuses, b \in {NotJson, JsonNull, SampleObject}}

\* What the completions API may answer: also every completion text.
CompletionOutcomes ==
    ShapeOutcomes
    \cup {Answer(200, JsonObject(c, Undefined)) :
            c \in {Undefined, Null, Number} \cup {Str(t) : t \in Contents}}

\* What the images API may answer: also a missing or empty image.
ImageOutcomes ==
    ShapeOutcomes
    \cup {Answer(200, JsonObject(Undefined, b)) :
            b \in {Undefined, Null, Number, Str(<<>>)}}

\* ALLOWED_ORIGIN, split at ",": unset; one entry in upper case with blanks and
\* slashes around it; two entries and an empty one; a lone slash.
BaseEnvs == {<<>>}
GateEnvs ==
    {<<>>,
     << <<" ", "A", "/", "/", " ">> >>,
     << <<"b", "/">>, <<>>, <<"a">> >>,
     << <<"/">> >>}

(***************************************************************************)
(* The state machine.                                                      *)
(***************************************************************************)
InitWith(envs, nulls) ==
    /\ rev \in Revisions
    /\ ALLOWED_ORIGIN \in envs
    /\ ALLOWED = buildAllowed(rev, ALLOWED_ORIGIN)
    /\ ALLOW_NULL_ORIGIN \in (IF rev = "server_js" THEN nulls ELSE {FALSE})
    /\ hits = [c \in Clients |-> 0]
    /\ pc = "idle"
    /\ req = NoRequest
    /\ res = FreshResponse
    /\ visited = {}
    /\ upstream = NoCall
    /\ calls = 0

config == <<rev, ALLOWED_ORIGIN, ALLOWED, ALLOW_NULL_ORIGIN>>

\* A request arrives once the one before it is answered.
Arrive(R) ==
    /\ pc = "idle"
    /\ \E r \in R :
        /\ hits[r.ip] < HitsCap
        /\ req' = r
    /\ res' = FreshResponse
    /\ pc' = Layers(rev)[1]
    /\ visited' = {}
    /\ upstream' = NoCall
    /\ calls' = 0
    /\ UNCHANGED <<config, hits>>

\* app.get('/api/health', (_req, res) => res.json({ ok: true }))
HealthRoute ==
    /\ pc = "health"
    /\ IF req.method = "GET" /\ req.path = "/api/health"
       THEN /\ res' = statusJson(res, 200, [kind |-> "health"])
            /\ visited' = visited \cup {"health"}
            /\ pc' = "done"
       ELSE /\ pc' = nextLayer(rev, "health")
            /\ UNCHANGED <<res, visited>>
    /\ UNCHANGED <<config, hits, req, upstream, calls>>

gateApplies(r, path) == r = "part_001" \/ underApi(path)

\* The origin gate's layers: "preflight" (server_js) and "cors".
OriginGate ==
    /\ pc \in {"preflight", "cors"}
    /\ LET g == gate(rev, pc, ALLOWED, ALLOW_NULL_ORIGIN, req, res)
       IN  /\ res' = g.res
           /\ pc' = IF g.next = "end" THEN "done" ELSE nextLayer(rev, pc)
    /\ visited' = IF gateApplies(rev, req.path) THEN visited \cup {pc} ELSE visited
    /\ UNCHANGED <<config, hits, req, upstream, calls>>

tooManyRequests(rs) ==
    [rs EXCEPT !.status = 429, !.body = [kind |-> "text"], !.sent = @ + 1]

\* app.use('/api/', rateLimit({ windowMs: 60_000, max: 30 })): the request is
\* counted, and refused once the client's count is over max.
RateLimit ==
    /\ pc = "rateLimit"
    /\ IF underApi(req.path)
       THEN /\ hits' = [hits EXCEPT ![req.ip] = @ + 1]
            /\ req' = [req EXCEPT !.rateLimit = hits'[req.ip]]
            /\ visited' = visited \cup {"rateLimit"}
            /\ IF hits'[req.ip] > max
               THEN res' = tooManyRequests(res) /\ pc' = "done"
               ELSE res' = res /\ pc' = nextLayer(rev, "rateLimit")
       ELSE /\ pc' = nextLayer(rev, "rateLimit")
            /\ UNCHANGED <<hits, visited, res, req>>
    /\ UNCHANGED <<config, upstream, calls>>

\* The window's timer: every count starts again from zero.
ResetWindow ==
    /\ \E c \in Clients : hits[c] > 0
    /\ hits' = [c \in Clients |-> 0]
    /\ UNCHANGED <<config, pc, req, res, visited, upstream, calls>>

routeOf(r) ==
    IF r.method = "POST" /\ r.path \in {"/api/summarize", "/api/generate-avatar", "/api/chat"}
    THEN r.path
    ELSE "none"

\* No route matches: Express answers 404.
NotFound ==
    /\ pc = "routes"
    /\ routeOf(req) = "none"
    /\ res' = expressNotFound(res)
    /\ pc' = "done"
    /\ UNCHANGED <<config, hits, req, visited, upstream, calls>>

\* A completion handler up to its await: building the payload throws on a
\* malformed messages value (the catch clause answers 500), else fetch is issued.
CompletionStart(route) ==
    /\ pc = "routes"
    /\ routeOf(req) = route
    /\ visited' = visited \cup {route}
    /\ IF req.body.messages = "malformed"
       THEN /\ res' = statusJson(res, 500, serverError)
            /\ pc' = "done"
            /\ UNCHANGED <<upstream, calls>>
       ELSE /\ upstream' = Pending
            /\ calls' = calls + 1
            /\ pc' = "await"
            /\ res' = res
    /\ UNCHANGED <<config, hits, req>>

SummarizeStart == CompletionStart("/api/summarize")

ChatStart == CompletionStart("/api/chat")

\* generate-avatar up to its await: the hint check, then fetch.
AvatarStart ==
    /\ pc = "routes"
    /\ routeOf(req) = "/api/generate-avatar"
    /\ visited' = visited \cup {"/api/generate-avatar"}
    /\ IF hintRejected(req.body.hint)
       THEN /\ res' = statusJson(res, 400, badRequest)
            /\ pc' = "done"
            /\ UNCHANGED <<upstream, calls>>
       ELSE /\ upstream' = Pending
            /\ calls' = calls + 1
            /\ pc' = "await"
            /\ res' = res
    /\ UNCHANGED <<config, hits, req>>

afterFetch(route, rs, o) ==
    CASE route = "/api/summarize" -> summarizeAfterFetch(rs, o)
      [] route = "/api/chat" -> chatAfterFetch(rs, o)
      [] route = "/api/generate-avatar" -> avatarAfterFetch(rs, o)

Settle_retryOn429(route, O) ==
    /\ pc = "await"
    /\ routeOf(req) = route
    /\ upstream = Pending
    /\ \E o \in O :
        IF ~o.threw /\ o.status = 429 /\ calls < 2
        THEN /\ calls' = calls + 1
             /\ UNCHANGED <<upstream, res, pc>>
        ELSE /\ upstream' = Settled(o)
             /\ res' = afterFetch(route, res, o)
             /\ pc' = "done"
             /\ calls' = calls
    /\ UNCHANGED <<config, hits, req, visited>>

\* The outbound call settles with an outcome of O and the handler runs to its end.
Settle(route, O) ==
    /\ pc = "await"
    /\ routeOf(req) = route
    /\ upstream = Pending
    /\ \E o \in O :
        /\ upstream' = Settled(o)
        /\ res' = afterFetch(route, res, o)
    /\ pc' = "done"
    /\ UNCHANGED <<config, hits, req, visited, calls>>

SummarizeSettle(O) == Settle("/api/summarize", O)

ChatSettle(O) == Settle("/api/chat", O)

AvatarSettle(O) == Settle("/api/generate-avatar", O)

\* The answered request leaves; the server keeps nothing of it but the counts.
Close ==
    /\ pc = "done"
    /\ pc' = "idle"
    /\ req' = NoRequest
    /\ res' = FreshResponse
    /\ visited' = {}
    /\ upstream' = NoCall
    /\ calls' = 0
    /\ UNCHANGED <<config, hits>>

NextWith(R, O, OI) ==
    \/ Arrive(R)
    \/ Close
    \/ HealthRoute
    \/ OriginGate
    \/ RateLimit
    \/ ResetWindow
    \/ NotFound
    \/ SummarizeStart
    \/ ChatStart
    \/ AvatarStart
    \/ SummarizeSettle(O)
    \/ ChatSettle(O)
    \/ AvatarSettle(OI)

\* Every client, every method and path: the rate limiter's cases.
Init == InitWith(BaseEnvs, {FALSE})
Next == NextWith(ClientRequests, BaseOutcomes, BaseOutcomes)
Spec == Init /\ [][Next]_vars

\* Every Origin under every configuration: the origin gate's cases.
InitGate == InitWith(GateEnvs, BOOLEAN)
NextGate == NextWith(GateRequests, BaseOutcomes, BaseOutcomes)
SpecGate == InitGate /\ [][NextGate]_vars

\* Every request body and every upstream answer: the handlers' cases.
InitHandlers == InitWith(BaseEnvs, {FALSE})
NextHandlers == NextWith(HandlerRequests, CompletionOutcomes, ImageOutcomes)
SpecHandlers == InitHandlers /\ [][NextHandlers]_vars

(***************************************************************************)
(* The origin gate's properties.                                           *)
(***************************************************************************)
AllowHeaderNames ==
    {"Access-Control-Allow-Origin", "Access-Control-Allow-Methods",
     "Access-Control-Allow-Headers", "Access-Control-Allow-Credentials"}

\* The gate has run for the current request and has either ended it or passed it on.
gateDecided ==
    /\ pc \notin {"idle", "preflight", "cors"}
    /\ visited \cap {"preflight", "cors"} # {}

\* The gate itself ended the request.
gateEnded == gateDecided /\ pc = "done" /\ visited \subseteq {"preflight", "cors"}

\* The Origin as sent is, after normalisation, a member of the allow-list.
originListed == req.origin.present /\ includes(ALLOWED, normalizeOrigin(req.origin.value))

granted == hasHeader(res, "Access-Control-Allow-Origin")

preflightAnswered == pc = "done" /\ req.method = "OPTIONS" /\ underApi(req.path)

\* C1: a preflight to a path under /api from a listed origin is answered 204
\* with an empty body, Access-Control-Allow-Origin equal to the Origin as sent
\* and the Allow-Methods and Allow-Headers headers; from any other origin (or
\* none) it is answered with a rejection status, an empty body and none of the
\* Access-Control-Allow-* headers.
C1_PreflightAnswer ==
    preflightAnswered =>
        IF originListed
        THEN /\ res.status = 204
             /\ res.body = EmptyBody
             /\ granted
             /\ res.headers["Access-Control-Allow-Origin"] = req.origin.value
             /\ hasHeader(res, "Access-Control-Allow-Methods")
             /\ hasHeader(res, "Access-Control-Allow-Headers")
        ELSE /\ res.status >= 400
             /\ res.body = EmptyBody
             /\ DOMAIN res.headers \cap AllowHeaderNames = {}

\* C1 in the two revisions that normalise (server_js and part_000).
C1_InNormalizingRevisions == rev # "part_001" => C1_PreflightAnswer

C1_ListedPreflight ==
    /\ preflightAnswered /\ rev # "part_001" /\ originListed
    /\ req.origin.value = <<"A", "/", "/">>

\* The text before the trailing slashes.
core(s) ==
    LET n == CHOOSE k \in 0..Len(s) :
                 /\ k = 0 \/ s[k] # "/"
                 /\ \A j \in (k + 1)..Len(s) : s[j] = "/"
    IN  SubSeq(s, 1, n)

sameLetter(c, d) == c = d \/ {c, d} = {"a", "A"} \/ {c, d} = {"b", "B"}

\* s and t differ only in letter case and in trailing slashes.
equivalentOrigins(s, t) ==
    /\ Len(core(s)) = Len(core(t))
    /\ \A i \in 1..Len(core(s)) : sameLetter(core(s)[i], core(t)[i])

configuredEntries ==
    IF ALLOWED_ORIGIN = <<>> THEN <<DefaultAllowedOrigin>> ELSE ALLOWED_ORIGIN

\* C2: the gate grants a request, preflight or not, exactly when its Origin
\* equals a configured entry up to letter case and trailing slashes.
C2_CaseAndSlashInsensitive ==
    (gateDecided /\ underApi(req.path)) =>
        (granted <=>
            /\ req.origin.present
            /\ core(req.origin.value) # <<>>
            /\ \E i \in 1..Len(configuredEntries) :
                   equivalentOrigins(trim(configuredEntries[i]), req.origin.value))

\* C2 in the two revisions that normalise (server_js and part_000).
C2_InNormalizingRevisions == rev # "part_001" => C2_CaseAndSlashInsensitive

C2_UpperCaseEntryLowerCaseOrigin ==
    /\ gateDecided /\ rev # "part_001" /\ granted
    /\ ALLOWED_ORIGIN = << <<" ", "A", "/", "/", " ">> >>
    /\ req.origin.value = <<"a", "/">>

\* C3: the gate passes every non-preflight request under /api on to the rate
\* limiter, with Access-Control-Allow-Origin (the Origin as sent) and Vary:
\* Origin exactly when the normalised origin is listed, and without
\* Access-Control-Allow-Origin otherwise.
C3_NonPreflightPassesGate ==
    (gateDecided /\ req.method # "OPTIONS" /\ underApi(req.path)) =>
        /\ ~gateEnded
        /\ pc = "rateLimit" \/ "rateLimit" \in visited
        /\ granted <=> originListed
        /\ granted =>
            /\ res.headers["Access-Control-Allow-Origin"] = req.origin.value
            /\ hasHeader(res, "Vary")
            /\ res.headers["Vary"] = "Origin"

\* C3 in the revision with the manual gate (part_000).
C3_InManualRevision == rev = "part_000" => C3_NonPreflightPassesGate

C3_UnlistedReachesHandler ==
    /\ rev = "part_000" /\ pc = "done" /\ ~originListed
    /\ "/api/chat" \in visited /\ res.body.kind = "chat" /\ ~granted

\* C10: no response carries an Access-Control-Allow-Credentials header.
C10_NoCredentialsHeader == ~hasHeader(res, "Access-Control-Allow-Credentials")

C10_GrantedResponses ==
    /\ pc = "done" /\ granted /\ req.method = "POST"
    /\ res.body.kind = "chat" /\ rev = "server_js"

(***************************************************************************)
(* The handlers' properties.                                               *)
(***************************************************************************)
\* The handler of `route` has received the upstream's complete answer and has
\* answered the request.
answeredBy(route) ==
    /\ pc = "done"
    /\ route \in visited
    /\ upstream.state = "settled"
    /\ ~upstream.outcome.threw

upstreamStatus == upstream.outcome.status
upstreamBody == upstream.outcome.bodyText

\* The first n characters of s (all of s when it is shorter).
firstChars(s, n) == [i \in 1..(IF Len(s) < n THEN Len(s) ELSE n) |-> s[i]]

\* C4: a reply of POST /api/chat has at most 60 characters: the filler on an
\* upstream 429, and on success the first 60 characters of the trimmed content,
\* or the default reply when there is no content.
C4_ReplyAtMost60 ==
    res.body.kind = "chat" =>
        /\ Len(res.body.reply) <= 60
        /\ answeredBy("/api/chat")
        /\ upstreamStatus = 429 => res.body.reply = FillerReply
        /\ upstreamStatus # 429 =>
            LET c == upstreamBody.content
            IN  IF c.t = "string" /\ trim(c.v) # <<>>
                THEN res.body.reply = firstChars(trim(c.v), 60)
                ELSE res.body.reply = DefaultReply

C4_LongContentCut ==
    /\ res.body.kind = "chat"
    /\ upstreamStatus = 200
    /\ Len(trim(upstreamBody.content.v)) > 60
    /\ Len(res.body.reply) = 60

\* The trimmed text after the first `label` of s, white space skipped, up to the
\* end of that line; <<>> when s has no `label`.
labelValue(label, s) ==
    IF \A i \in 1..Len(s) : s[i] # label THEN <<>>
    ELSE LET i == CHOOSE k \in 1..Len(s) :
                      s[k] = label /\ \A m \in 1..(k - 1) : s[m] # label
             j == CHOOSE k \in (i + 1)..(Len(s) + 1) :
                      /\ \A m \in (i + 1)..(k - 1) : s[m] \in WhiteSpace
                      /\ k = Len(s) + 1 \/ s[k] \notin WhiteSpace
             e == CHOOSE k \in (j - 1)..Len(s) :
                      /\ \A m \in j..k : s[m] # "\n"
                      /\ k = Len(s) \/ s[k + 1] = "\n"
         IN  trim(SubSeq(s, j, e))

expectedField(label, s, dflt) ==
    IF labelValue(label, s) = <<>> THEN dflt ELSE labelValue(label, s)

summaryOf(content) ==
    summary(expectedField("T", toString(content), DefaultTopics),
            expectedField("S", toString(content), DefaultSentiment),
            expectedField("H", toString(content), DefaultHint),
            content)

\* C5 as stated: whenever the upstream answers with a success status, POST
\* /api/summarize answers 200 with the four fields topics, sentiment, hint, raw.
C5_AlwaysFourFields ==
    (answeredBy("/api/summarize") /\ ok(upstreamStatus)) =>
        /\ res.status = 200
        /\ res.body.kind = "summary"

\* C5 as amended: when the upstream answers with a success status and a body
\* that parses as JSON to a non-null value, the answer is 200 with the four
\* fields, each the trimmed text after its label or its default, and raw the
\* completion text; a success body that does not parse, or parses to null, is
\* answered 500 server_error.
C5_FourFieldsWhenParsed ==
    (answeredBy("/api/summarize") /\ ok(upstreamStatus)) =>
        IF upstreamBody.valid /\ upstreamBody.shape # "null"
        THEN /\ res.status = 200
             /\ res.body = summaryOf(IF truthy(upstreamBody.content)
                                     THEN upstreamBody.content ELSE Str(<<>>))
        ELSE /\ res.status = 500
             /\ res.body = serverError

C5_LabelFoundAndLabelMissing ==
    /\ answeredBy("/api/summarize")
    /\ upstreamStatus = 200
    /\ upstreamBody.content = Str(<<"T", "\n", "x">>)
    /\ res.body.kind = "summary"
    /\ res.body.topics = <<"x">>
    /\ res.body.sentiment = DefaultSentiment

\* C6: on an upstream 429, chat and summarize answer 200 with their fixed
\* fallback payload, never status 429 or an error body.
C6_Absorbs429 ==
    /\ (answeredBy("/api/chat") /\ upstreamStatus = 429) =>
          /\ res.status = 200
          /\ res.body = chatReply(FillerReply)
    /\ (answeredBy("/api/summarize") /\ upstreamStatus = 429) =>
          /\ res.status = 200
          /\ res.body = summary(DefaultTopics, DefaultSentiment, DefaultHint,
                                Str(Fallback429Raw))

C6_Summarize429 ==
    /\ answeredBy("/api/summarize")
    /\ upstreamStatus = 429
    /\ res.status = 200

\* C7: when the body's hint is absent or not a string, the generate-avatar
\* handler answers 400 bad_request and no outbound call is issued for the request.
C7_BadHintRejected ==
    (routeOf(req) = "/api/generate-avatar" /\ req.body.hint.t # "string") =>
        /\ calls = 0
        /\ upstream = NoCall
        /\ "/api/generate-avatar" \in visited =>
              /\ pc = "done"
              /\ res.status = 400
              /\ res.body.kind = "error"
              /\ res.body.error = "bad_request"

C7_NumberHint ==
    /\ pc = "done"
    /\ "/api/generate-avatar" \in visited
    /\ req.body.hint = Number
    /\ res.status = 400

\* C8: an upstream answer that is neither a success nor a 429 is passed through
\* by each of the three handlers: same status, error openai_error, and the
\* upstream's body text as the detail.
C8_ErrorPassedThrough ==
    \A route \in {"/api/summarize", "/api/generate-avatar", "/api/chat"} :
        (answeredBy(route) /\ ~ok(upstreamStatus) /\ upstreamStatus # 429) =>
            /\ res.status = upstreamStatus
            /\ res.body.kind = "error"
            /\ res.body.error = "openai_error"
            /\ res.body.detail = upstreamBody

C8_Avatar500 ==
    /\ answeredBy("/api/generate-avatar")
    /\ upstreamStatus = 500
    /\ upstreamBody = SampleObject
    /\ res.status = 500

(***************************************************************************)
(* The rate limiter's properties.                                          *)
(***************************************************************************)
servedByHandler ==
    visited \cap {"health", "/api/summarize", "/api/generate-avatar", "/api/chat"} # {}

\* C9: every request to a path under /api that a handler serves, /api/health
\* included, has been counted by the limiter as one of the first 30 of its
\* client's window (so that at most 30 are served per window).
C9_ServedWithinLimit ==
    (underApi(req.path) /\ servedByHandler) => req.rateLimit \in 1..30

\* C9 in the revision that registers the limiter before every route (part_001).
C9_InLimiterFirstRevision == rev = "part_001" => C9_ServedWithinLimit

\* What the limiter does hold in every revision: a request it counted past 30 is
\* refused with 429 and reaches no handler.
C9_OverLimitRefused ==
    req.rateLimit > 30 => pc = "done" /\ res.status = 429 /\ ~servedByHandler

PassthroughRoutes == {"/api/summarize", "/api/generate-avatar", "/api/chat"}

\* The handler of `route` ran for the current request and the request is answered.
handledBy(route) == pc = "done" /\ route \in visited

\* Building the outbound call threw: .slice(-10).map(...) on a malformed messages.
buildThrew(route) ==
    /\ handledBy(route)
    /\ route \in {"/api/summarize", "/api/chat"}
    /\ req.body.messages = "malformed"

\* Issuing the call threw: fetch() or r.text() rejected.
issueThrew(route) ==
    /\ handledBy(route)
    /\ upstream.state = "settled"
    /\ upstream.outcome.threw

\* The upstream answered with a success status and a body that is not JSON.
successBodyUnparsable(route) ==
    answeredBy(route) /\ ok(upstreamStatus) /\ ~upstreamBody.valid

\* Processing a parsed success body throws: data.choices on null (summarize,
\* chat) and content.trim on a content that is not a string (chat).
processingThrew(route) ==
    /\ answeredBy(route)
    /\ ok(upstreamStatus)
    /\ upstreamBody.valid
    /\ \/ route \in {"/api/summarize", "/api/chat"} /\ upstreamBody.shape = "null"
       \/ /\ route = "/api/chat"
          /\ upstreamBody.shape = "object"
          /\ upstreamBody.content.t = "number"

answeredServerError == res.status = 500 /\ res.body = serverError /\ res.sent = 1

\* C11 as stated: in each of the three passthrough handlers an exception while
\* building the call, issuing it or processing its result, a success body that
\* does not parse as JSON included, is answered 500 server_error.
C11_ExceptionGivesServerError ==
    \A route \in PassthroughRoutes :
        (\/ buildThrew(route)
         \/ issueThrew(route)
         \/ successBodyUnparsable(route)
         \/ processingThrew(route)) => answeredServerError

\* C11, amended: an exception while building or issuing the call is answered
\* 500 server_error by each handler; so is, in summarize and chat, a success
\* body that does not parse as JSON or whose processing throws; generate-avatar
\* takes a success body that does not parse as one without an image and
\* answers 502 no_image.
C11_ServerErrorExceptAvatarParse ==
    /\ \A route \in PassthroughRoutes :
          (buildThrew(route) \/ issueThrew(route) \/ processingThrew(route))
              => answeredServerError
    /\ \A route \in {"/api/summarize", "/api/chat"} :
          successBodyUnparsable(route) => answeredServerError
    /\ successBodyUnparsable("/api/generate-avatar") =>
          /\ res.status = 502
          /\ res.body = noImage
          /\ res.sent = 1

C11_ChatUnparsableBody ==
    /\ successBodyUnparsable("/api/chat")
    /\ upstreamStatus = 200
    /\ answeredServerError

\* C12: a request handled by summarize, generate-avatar or chat issues at most
\* one outbound call, never a second one after the first has settled, and
\* whatever the outcome (success, 429, other failure, exception) it is answered
\* with exactly one response: none is sent while the call is pending and one
\* has been sent when the handler is through.
C12_OneCallOneResponse ==
    /\ calls \in 0..1
    /\ res.sent \in 0..1
    /\ upstream.state = "settled" => calls = 1 /\ pc = "done"
    /\ pc = "await" => calls = 1 /\ upstream = Pending /\ res.sent = 0
    /\ \A route \in PassthroughRoutes :
          /\ route \in visited => pc \in {"await", "done"}
          /\ handledBy(route) => res.sent = 1

C12_AnsweredAfter429 ==
    /\ answeredBy("/api/chat")
    /\ upstreamStatus = 429
    /\ calls = 1
    /\ res.sent = 1

\* C13: a preflight to a path under /api is answered by the origin gate, be it
\* accepted or refused: the request goes no further than the gate's layers, is
\* never counted by the rate limiter, reaches no route handler and causes no
\* outbound call.
C13_PreflightStopsAtGate ==
    (req.method = "OPTIONS" /\ underApi(req.path)) =>
        /\ pc \notin {"rateLimit", "routes", "await"}
        /\ visited \subseteq {"preflight", "cors"}
        /\ req.rateLimit = 0
        /\ calls = 0
        /\ upstream = NoCall
        /\ pc = "done" => gateEnded /\ res.sent = 1

C13_RefusedPreflight ==
    /\ preflightAnswered
    /\ ~originListed
    /\ gateEnded
    /\ res.status >= 400

=============================================================================
